---- MODULE Spec2Model ----
(***************************************************************************)
(* suk: single-use keys.  A SessionStorage wraps one storage backend.  The *)
(* model follows the in-memory backend (syncMap over a sync.Map) and the   *)
(* facade that guards every backend call with the store-wide mutex mu.     *)
(* Each caller is a goroutine; every sync.Map call and every statement     *)
(* that reads the clock or the random source is one step.  A goroutine     *)
(* blocked in ss.mu.Lock() is one whose call has not taken its first step. *)
(***************************************************************************)
EXTENDS Integers, Sequences, FiniteSets, TLC

\* ------------------------------------------------------------------ bounds
\* randomID is called with lengths from 0 to MaxLen
MaxLen == 5
\* New is called with up to MaxOpts options
MaxOpts == 3
\* the clock of a store watched for its sweeps runs from 0 to MaxSweepTime
MaxSweepTime == 5
\* the clock runs from 0 to MaxTime
MaxTime == 1
\* calls issued by the callers, in total
MaxCalls == 3

\* the characters keys are drawn from (a small stand-in for stringBuffer)
Alphabet == {"a", "b"}
\* the key lengths a store may be configured with
KeyLengths == {1}
\* durationToExpire of a store, in clock ticks
Durations == {-1, 1}
\* durationToExpire of a store watched for its sweeps
SweepDurations == {1, 2}
\* the payloads callers hand to Set
Payloads == {"x"}
\* the payloads handed to a store on Redis: the string "x" and the int 7
RedisPayloads == {"x", "int(7)"}
\* the caller goroutines
Callers == {"c1", "c2"}
\* the goroutine started by New when auto-clear is on
Sweeper == "sweeper"
Procs == Callers \cup {Sweeper}

\* ------------------------------------------------------------------ values
\* error values
NoErr == "nil"
ErrKeyWasExpired == "ErrKeyWasExpired"
ErrNoKeyFound == "ErrNoKeyFound"
ErrNilSession == "ErrNilSession"
\* the error crypto/rand hands back when the random source cannot be read
ErrRand == "ErrRand"
\* an error of the Redis client other than redis.Nil
ErrIO == "ErrIO"

\* A session as stored or returned.  The code stores `any`; what is stored
\* is either the caller's payload or a value struct wrapped around one.
\* base is the caller's payload, wraps the expirations of the value structs
\* nested around it, innermost first: <<>> is the bare payload.
Bare(p) == [base |-> p, wraps |-> <<>>]
\* the nil interface
NilSession == Bare("nil")
\* struct{}{}, what the facade's Get returns beside an error
EmptyStruct == Bare("struct{}")
\* value{data, expiration}
Value(d, e) == [data |-> d, expiration |-> e]
\* a value struct passed on as a session (an `any` holding the struct)
AsSession(v) == [base |-> v.data.base, wraps |-> Append(v.data.wraps, v.expiration)]
NoValue == Value(NilSession, 0)
\* the empty string, the key returned beside an error
NoKey == << >>

\* every key randomID(n) can produce: n characters of the alphabet
KeysOf(n) == [1..n -> Alphabet]

VARIABLES
    storage,            \* the sync.Map: key -> value
    mu,                 \* the holder of SessionStorage.mu, or "free"
    now,                \* the clock time.Now() reads
    keyLength,          \* syncMap.keyLength
    durationToExpire,   \* syncMap.durationToExpire
    autoClear,          \* config.autoClearExpiredKeys
    tickerC,            \* ticks buffered in ticker.C (capacity 1)
    pc,                 \* where each goroutine is
    cur,                \* the locals of each goroutine's call
    last,               \* what the call that returned last handed back
    calls,              \* calls issued so far
    hist,               \* per key: what the callers were told about it
    backend,            \* the type behind SessionStorage.storage
    stopChannel,        \* SessionStorage.stopChannel: "nil", "open", "closed"
    destroyed,          \* how the call of Destroy ended, "no" before it
    gen,                \* a call of randomID on its own: its locals
    build,              \* a call of New: the options left, config and errs
    peer,               \* a set of another store on the same Redis service
    sweeps              \* ticks the sweeper took since Destroy returned

\* the store and its goroutines
svars == <<storage, mu, now, keyLength, durationToExpire, autoClear, tickerC,
           pc, cur, last, calls, hist>>
\* what the operations of a store in service leave alone
beside == <<peer, sweeps>>
aside == <<backend, stopChannel, destroyed, gen, build, beside>>
vars == <<svars, aside>>

\* ------------------------------------------------------------------ sync.Map
\* sync.Map.Load: is there an entry
\* a Load that never finds the key
AlwaysFree(m, k) == FALSE
Load(m, k) == k \in DOMAIN m
\* sync.Map.Store
\* a Store that drops the entry
StoreNothing(m, k, v) == m
Store(m, k, v) == [x \in DOMAIN m \cup {k} |-> IF x = k THEN v ELSE m[x]]
\* sync.Map.Delete
\* a Delete that empties the map
DeleteAll(m, k) == [x \in {} |-> [data |-> 0, expiration |-> 0]]
Delete(m, k) == [x \in DOMAIN m \ {k} |-> m[x]]
\* an expiration two durations ahead
TwiceAsLong(t, d) == t + d + d
\* time.Now().Add(s.durationToExpire)
ExpiresAt(t, d) == t + d
\* what get does to the map: LoadAndDelete
\* a Load in place of LoadAndDelete
LoadOnly(m, k) == m
LoadAndDelete(m, k) == Delete(m, k)
\* time.Until(v.expiration) <= 0
\* < 0 in place of <= 0
ExpiredStrict(v, t) == v.expiration - t < 0
\* time.Since in place of time.Until
ExpiredSince(v, t) == t - v.expiration <= 0
Expired(v, t) == v.expiration - t <= 0
\* syncMap.clearExpired: Range deleting each expired entry
\* a Range that deletes every entry
ClearAll(m, t) == [x \in {} |-> [data |-> 0, expiration |-> 0]]
ClearExpiredMap(m, t) == [x \in {k \in DOMAIN m : ~Expired(m[k], t)} |-> m[x]]
\* a set that takes nil for a session like any other
NeverNil(s) == FALSE
\* session == nil
IsNil(s) == s = NilSession
\* a facade that reports success whatever the backend returned
ShapedOk(c) == [c EXCEPT !.err = "nil"]
\* session returned in place of v.data
ReturnsSession(v) == AsSession(v)
\* the data get returns for a loaded value: v.data
ReturnedData(v) == v.data
\* what get passes to set for the rotation: session, the loaded value itself
RotatedSession(v) == AsSession(v)

\* ------------------------------------------------------------------ Redis
\* what the Redis client writes for a session and GetDel later hands back as
\* a string: a string's own bytes, an int's decimal digits
Marshal(s) == IF s.base = "int(7)" THEN Bare("7") ELSE s
\* the records of the service at time t: it drops a record when its time to
\* live is over
\* a service that keeps every record
NeverExpires(m, t) == m
RedisExpire(m, t) == [x \in {k \in DOMAIN m : m[k].expiration > t} |-> m[x]]

\* ------------------------------------------------------------------ locals
\* n + 1, counted up to 2
UpTo2(n) == IF n < 2 THEN n + 1 ELSE 2

\* what the callers were told about a key: how it was last issued ("set",
\* "get" or "none"), the payload handed over with it, the key that Get
\* consumed (prev), the expiration of the record stored under it, whether no
\* caller has read or removed the key since (live), whether clearExpired
\* deleted its record since (swept), whether it was ever consumed by a
\* successful Get or had its record deleted by a Remove (dead), whether it
\* was ever named in a Remove (removed), how many Gets on it succeeded (okGets) and how many
\* Sets returned it (setCount), both counted up to 2.
NoHist == [src |-> "none", payload |-> NilSession, prev |-> NoKey, exp |-> 0,
           live |-> FALSE, swept |-> FALSE, dead |-> FALSE, removed |-> FALSE,
           okGets |-> 0, setCount |-> 0]

\* the locals and results of one call through the facade; readTime is the
\* clock when get looked at the record, sizeBefore the number of records
\* when the call took the mutex, fail the error that randomID or the Redis
\* client handed to the backend during the call
Idle == [op |-> "none", session |-> NilSession, key |-> NoKey, id |-> NoKey,
         v |-> NoValue, loaded |-> FALSE, err |-> NoErr, data |-> NilSession,
         retKey |-> NoKey, pre |-> NoHist, readTime |-> 0, sizeBefore |-> 0,
         collided |-> FALSE, stored |-> FALSE, fail |-> NoErr]

Size(m) == Cardinality(DOMAIN m)

\* ------------------------------------------------------------------ randomID
\* stringBuffer as a sequence: stringBuffer[num] is StringBuffer[num + 1]
StringBuffer == <<"a", "b">>
\* the zero byte make([]byte, n) fills ret with
Nul == "\\x00"
\* a loop that leaves the last byte out
StopsShort(i, n) == i >= n - 1
\* the loop of randomID is over: i < n no longer holds
LoopDone(i, n) == i >= n
\* randomID(n) entered: ret := make([]byte, n), i = 0
RandomIDCall(n) == [pc |-> "loop", n |-> n, i |-> 0, ret |-> [j \in 1..n |-> Nul],
                    out |-> <<>>, err |-> NoErr]
\* no call of randomID under way
GenIdle == [pc |-> "none", n |-> 0, i |-> 0, ret |-> <<>>, out |-> <<>>,
            err |-> NoErr]

\* ------------------------------------------------------------------ config
\* the errors of the options
ErrNilRedisClient == "ErrNilRedisClient"
ErrRedisClientAlreadySet == "ErrRedisClientAlreadySet"
ErrZeroKeyLength == "ErrZeroKeyLength"
ErrNonPositiveKeyDuration == "ErrNonPositiveKeyDuration"
ErrCustomKeyLengthAlreadySet == "ErrCustomKeyLengthAlreadySet"
ErrCustomKeyDurationAlreadySet == "ErrCustomKeyDurationAlreadySet"
ErrAutoExpiredClearAlreadySet == "ErrAutoExpiredClearAlreadySet"

\* a nil pointer, and a pointer to a number
NilPtr == [set |-> FALSE, val |-> 0]
PtrTo(n) == [set |-> TRUE, val |-> n]

\* var c config: the zero value
ZeroConfig == [autoExpiredClear |-> FALSE, customKeyLength |-> NilPtr,
               customKeyDuration |-> NilPtr, redisCtx |-> "nil",
               redisClient |-> "nil"]

\* an option as the caller wrote it: its constructor and arguments
Opt(kind, client, ctx, arg) ==
    [kind |-> kind, client |-> client, ctx |-> ctx, arg |-> arg]
\* the options New is tried with
Options ==
    {Opt("WithRedis", cl, cx, 0) : cl \in {"nil", "client"},
                                   cx \in {"nil", "ctx"}}
    \cup {Opt("WithKeyLength", "nil", "nil", n) : n \in {0, 1}}
    \cup {Opt("WithKeyDuration", "nil", "nil", d) : d \in {-1, 0, 1}}
    \cup {Opt("WithAutoClearExpiredKeys", "nil", "nil", 0)}

\* what applying an option gives: the config it leaves and its error
Applied(c, e) == [c |-> c, err |-> e]

WithRedis(client, ctx, c) ==
    IF c.redisClient # "nil" \/ c.redisCtx # "nil"
    THEN Applied(c, ErrRedisClientAlreadySet)
    ELSE IF client = "nil"
    THEN Applied(c, ErrNilRedisClient)
    ELSE Applied([c EXCEPT !.redisCtx = IF ctx = "nil" THEN "background" ELSE ctx,
                           !.redisClient = client], NoErr)

WithKeyLength(keyLen, c) ==
    IF c.customKeyLength # NilPtr
    THEN Applied(c, ErrCustomKeyLengthAlreadySet)
    ELSE IF keyLen = 0
    THEN Applied(c, ErrZeroKeyLength)
    ELSE Applied([c EXCEPT !.customKeyLength = PtrTo(keyLen)], NoErr)

WithKeyDuration(duration, c) ==
    IF c.customKeyDuration # NilPtr
    THEN Applied(c, ErrCustomKeyDurationAlreadySet)
    ELSE IF duration <= 0
    THEN Applied(c, ErrNonPositiveKeyDuration)
    ELSE Applied([c EXCEPT !.customKeyDuration = PtrTo(duration)], NoErr)

WithAutoClearExpiredKeys(c) ==
    Applied([c EXCEPT !.autoExpiredClear = TRUE], NoErr)

\* opt.apply(&c)
Apply(o, c) ==
    CASE o.kind = "WithRedis" -> WithRedis(o.client, o.ctx, c)
      [] o.kind = "WithKeyLength" -> WithKeyLength(o.arg, c)
      [] o.kind = "WithKeyDuration" -> WithKeyDuration(o.arg, c)
      [] o.kind = "WithAutoClearExpiredKeys" -> WithAutoClearExpiredKeys(c)

\* defaultKeyLength, and defaultDurationToExpire in minutes
DefaultKeyLength == 32
DefaultDurationToExpire == 10

\* no store built
NoStore == [backend |-> "nil", client |-> "nil", ctx |-> "nil", keyLength |-> 0,
            durationToExpire |-> 0, stopChannel |-> "nil", sweeper |-> FALSE]
\* a sweeper for every store that asked for one
RequestedOnly(c) == c.autoExpiredClear
\* New reaches go func() { ... }: no Redis client (else it has returned) and
\* auto-clear asked for
StartsSweeper(c) == c.redisClient = "nil" /\ c.autoExpiredClear
\* the store New builds from a config whose options all applied: the backend
\* and the client handle in it, its key length and duration, the stop
\* channel and whether the sweeper goroutine was started
Built(c) ==
    [backend |-> IF c.redisClient # "nil" THEN "redisDB" ELSE "syncMap",
     client |-> IF c.redisClient # "nil" THEN "new(redis.Client)" ELSE "nil",
     ctx |-> IF c.redisClient # "nil" THEN c.redisCtx ELSE "nil",
     keyLength |-> IF c.customKeyLength # NilPtr
                   THEN c.customKeyLength.val ELSE DefaultKeyLength,
     durationToExpire |-> IF c.customKeyDuration # NilPtr
                          THEN c.customKeyDuration.val
                          ELSE DefaultDurationToExpire,
     stopChannel |-> IF StartsSweeper(c) THEN "open" ELSE "nil",
     sweeper |-> StartsSweeper(c)]

\* New(opts...) entered: var c config; errs empty; i counts the options
\* applied, results keeps what each apply returned
NewCall(opts) == [pc |-> "opts", opts |-> opts, i |-> 0, c |-> ZeroConfig,
                  errs |-> <<>>, results |-> <<>>, store |-> "nil",
                  err |-> <<>>, made |-> NoStore]
\* no call of New under way
BuildIdle == [pc |-> "none", opts |-> <<>>, i |-> 0, c |-> ZeroConfig,
              errs |-> <<>>, results |-> <<>>, store |-> "nil", err |-> <<>>,
              made |-> NoStore]

\* no set of the other store under way
PeerIdle == [pc |-> "none", id |-> NoKey]
\* the session the other store's Set is given
PeerSession == Bare("y")

\* ------------------------------------------------------------------ Init
\* what every store starts with: no records, a free mutex, no call made
Fresh ==
    /\ storage = [x \in {} |-> NoValue]
    /\ mu = "free"
    /\ now = 0
    /\ tickerC = 0
    /\ pc = [p \in Procs |-> "idle"]
    /\ cur = [p \in Procs |-> Idle]
    /\ last = Idle
    /\ calls = 0
    /\ hist = [k \in KeysOf(keyLength) |-> NoHist]
    /\ destroyed = "no"
    /\ peer = PeerIdle
    /\ sweeps = 0

\* New without a Redis client: the configuration is resolved, the backend is
\* an empty sync.Map.  time.NewTicker panics on a non-positive interval, so a
\* store with auto-clear has a positive duration.
StoreInit ==
    /\ keyLength \in KeyLengths
    /\ durationToExpire \in Durations
    /\ autoClear \in BOOLEAN
    /\ autoClear => durationToExpire > 0
    /\ backend = "syncMap"
    /\ stopChannel = IF autoClear THEN "open" ELSE "nil"
    /\ Fresh

\* a store in service: no call of randomID or New is looked at on its own
Init == StoreInit /\ gen = GenIdle /\ build = BuildIdle

\* ------------------------------------------------------------------ facade
\* ss.mu.Lock(): only a free mutex can be taken; a caller that finds it held
\* waits, which is its call not having started yet
\* a facade without the mutex
FreeForAll(m) == TRUE
CanLock(m) == m = "free"

\* ss.storage.set / get / remove / clearExpired: where the method of the
\* backend behind the interface starts
Entry ==
    [syncMap |-> [set |-> "set_nil", get |-> "get_lad", remove |-> "remove",
                  clearExpired |-> "clear"],
     redisDB |-> [set |-> "rset_nil", get |-> "rget_getdel",
                  remove |-> "rremove", clearExpired |-> "rclear"]]

\* the sessions a caller may hand to Set
Sessions ==
    {Bare(x) : x \in IF backend = "redisDB" THEN RedisPayloads ELSE Payloads}
       \cup {NilSession}

\* the locals of a call that has just taken the mutex
Begin(op, s, k) ==
    [Idle EXCEPT !.op = op, !.session = s, !.key = k,
                 !.sizeBefore = Size(storage)]

\* SessionStorage.Set(session): ss.mu.Lock(), then ss.storage.set(session)
Set(p) ==
    /\ p \in Callers /\ pc[p] = "idle" /\ calls < MaxCalls
    /\ CanLock(mu)
    /\ mu' = p
    /\ \E s \in Sessions :
          cur' = [cur EXCEPT ![p] = Begin("Set", s, NoKey)]
    /\ pc' = [pc EXCEPT ![p] = Entry[backend].set]
    /\ calls' = calls + 1
    /\ UNCHANGED <<storage, now, keyLength, durationToExpire, autoClear,
                   tickerC, last, hist>>
    /\ UNCHANGED aside

\* SessionStorage.Get(key): ss.mu.Lock(), then ss.storage.get(key)
Get(p) ==
    /\ p \in Callers /\ pc[p] = "idle" /\ calls < MaxCalls
    /\ CanLock(mu)
    /\ mu' = p
    /\ \E k \in KeysOf(keyLength) :
          cur' = [cur EXCEPT ![p] = Begin("Get", NilSession, k)]
    /\ pc' = [pc EXCEPT ![p] = Entry[backend].get]
    /\ calls' = calls + 1
    /\ UNCHANGED <<storage, now, keyLength, durationToExpire, autoClear,
                   tickerC, last, hist>>
    /\ UNCHANGED aside

\* SessionStorage.Remove(key): ss.mu.Lock(), then ss.storage.remove(key)
Remove(p) ==
    /\ p \in Callers /\ pc[p] = "idle" /\ calls < MaxCalls
    /\ CanLock(mu)
    /\ mu' = p
    /\ \E k \in KeysOf(keyLength) :
          cur' = [cur EXCEPT ![p] = Begin("Remove", NilSession, k)]
    /\ pc' = [pc EXCEPT ![p] = Entry[backend].remove]
    /\ calls' = calls + 1
    /\ UNCHANGED <<storage, now, keyLength, durationToExpire, autoClear,
                   tickerC, last, hist>>
    /\ UNCHANGED aside

\* SessionStorage.ClearExpired(), called by a caller: ss.mu.Lock(), then
\* ss.storage.clearExpired()
ClearExpired(p) ==
    /\ p \in Callers /\ pc[p] = "idle" /\ calls < MaxCalls
    /\ CanLock(mu)
    /\ mu' = p
    /\ cur' = [cur EXCEPT ![p] = Begin("ClearExpired", NilSession, NoKey)]
    /\ pc' = [pc EXCEPT ![p] = Entry[backend].clearExpired]
    /\ calls' = calls + 1
    /\ UNCHANGED <<storage, now, keyLength, durationToExpire, autoClear,
                   tickerC, last, hist>>
    /\ UNCHANGED aside

\* ------------------------------------------------------------------ sweeper
\* case <-ticker.C: the goroutine takes the buffered tick
SweeperTick ==
    /\ pc[Sweeper] = "idle" /\ tickerC = 1
    /\ tickerC' = 0
    /\ pc' = [pc EXCEPT ![Sweeper] = "tick"]
    /\ sweeps' = IF destroyed = "returned" THEN UpTo2(sweeps) ELSE sweeps
    /\ UNCHANGED <<storage, mu, now, keyLength, durationToExpire, autoClear,
                   cur, last, calls, hist>>
    /\ UNCHANGED <<backend, stopChannel, destroyed, gen, build, peer>>

\* ss.ClearExpired(), called by the goroutine: ss.mu.Lock(), then
\* ss.storage.clearExpired()
SweeperClearExpired ==
    /\ pc[Sweeper] = "tick"
    /\ CanLock(mu)
    /\ mu' = Sweeper
    /\ cur' = [cur EXCEPT ![Sweeper] = Begin("ClearExpired", NilSession, NoKey)]
    /\ pc' = [pc EXCEPT ![Sweeper] = Entry[backend].clearExpired]
    /\ UNCHANGED <<storage, now, keyLength, durationToExpire, autoClear,
                   tickerC, last, calls, hist>>
    /\ UNCHANGED aside

\* ------------------------------------------------------------------ syncMap.set
\* if session == nil { return "", ErrNilSession }
SetNil(p) ==
    /\ pc[p] = "set_nil"
    /\ IF IsNil(cur[p].session)
       THEN /\ cur' = [cur EXCEPT ![p].err = ErrNilSession, ![p].retKey = NoKey]
            /\ pc' = [pc EXCEPT ![p] = "ret"]
       ELSE /\ pc' = [pc EXCEPT ![p] = "set_rand"]
            /\ UNCHANGED cur
    /\ UNCHANGED <<storage, mu, now, keyLength, durationToExpire, autoClear,
                   tickerC, last, calls, hist>>
    /\ UNCHANGED aside

\* id, err = randomID(s.keyLength): any key of that length, or the random
\* source's error (rand.Int is only called when there is a character to draw)
SetRand(p) ==
    /\ pc[p] = "set_rand"
    /\ \/ \E k \in KeysOf(keyLength) :
            /\ cur' = [cur EXCEPT ![p].id = k]
            /\ pc' = [pc EXCEPT ![p] = "set_load"]
       \/ /\ keyLength > 0
          /\ cur' = [cur EXCEPT ![p].err = ErrRand, ![p].retKey = NoKey,
                                ![p].fail = ErrRand]
          /\ pc' = [pc EXCEPT ![p] = "ret"]
    /\ UNCHANGED <<storage, mu, now, keyLength, durationToExpire, autoClear,
                   tickerC, last, calls, hist>>
    /\ UNCHANGED aside

\* _, ok = s.Load(id): leave the loop when the key is free, else draw again
SetLoad(p) ==
    /\ pc[p] = "set_load"
    /\ IF Load(storage, cur[p].id)
       THEN /\ pc' = [pc EXCEPT ![p] = "set_rand"]
            /\ cur' = [cur EXCEPT ![p].collided = TRUE]
       ELSE /\ pc' = [pc EXCEPT ![p] = "set_store"]
            /\ UNCHANGED cur
    /\ UNCHANGED <<storage, mu, now, keyLength, durationToExpire, autoClear,
                   tickerC, last, calls, hist>>
    /\ UNCHANGED aside

\* v := value{session, time.Now().Add(s.durationToExpire)}; s.Store(id, v);
\* return id, nil.  Called from get, get then returns v.data, newKey, nil.
SetStore(p) ==
    /\ pc[p] = "set_store"
    /\ storage' = Store(storage, cur[p].id,
                        Value(cur[p].session,
                              ExpiresAt(now, durationToExpire)))
    /\ cur' = [cur EXCEPT ![p].retKey = cur[p].id, ![p].err = NoErr,
                          ![p].stored = TRUE,
                          ![p].data = IF cur[p].op = "Get"
                                      THEN ReturnedData(cur[p].v)
                                      ELSE cur[p].data]
    /\ pc' = [pc EXCEPT ![p] = "ret"]
    /\ UNCHANGED <<mu, now, keyLength, durationToExpire, autoClear,
                   tickerC, last, calls, hist>>
    /\ UNCHANGED aside

\* ------------------------------------------------------------------ syncMap.get
\* session, loaded := s.LoadAndDelete(key); if !loaded { return ErrNoKeyFound }
GetLoadAndDelete(p) ==
    /\ pc[p] = "get_lad"
    /\ LET k == cur[p].key
           loaded == Load(storage, k)
       IN /\ storage' = IF loaded THEN LoadAndDelete(storage, k) ELSE storage
          /\ cur' = [cur EXCEPT ![p].loaded = loaded,
                                ![p].v = IF loaded THEN storage[k] ELSE NoValue,
                                ![p].err = IF loaded THEN NoErr ELSE ErrNoKeyFound,
                                ![p].pre = hist[k],
                                ![p].readTime = now]
          /\ pc' = [pc EXCEPT ![p] = IF loaded THEN "get_check" ELSE "ret"]
          /\ hist' = [hist EXCEPT ![k].live = FALSE]
    /\ UNCHANGED <<mu, now, keyLength, durationToExpire, autoClear,
                   tickerC, last, calls>>
    /\ UNCHANGED aside

\* if time.Until(v.expiration) <= 0 { return ErrKeyWasExpired };
\* newKey, err := s.set(session)
GetCheck(p) ==
    /\ pc[p] = "get_check"
    /\ IF Expired(cur[p].v, now)
       THEN /\ cur' = [cur EXCEPT ![p].err = ErrKeyWasExpired,
                                  ![p].readTime = now]
            /\ pc' = [pc EXCEPT ![p] = "ret"]
       ELSE /\ cur' = [cur EXCEPT ![p].session = RotatedSession(cur[p].v),
                                  ![p].readTime = now]
            /\ pc' = [pc EXCEPT ![p] = "set_nil"]
    /\ UNCHANGED <<storage, mu, now, keyLength, durationToExpire, autoClear,
                   tickerC, last, calls, hist>>
    /\ UNCHANGED aside

\* ------------------------------------------------------------------ syncMap.remove
\* s.Delete(key); return nil
SyncMapRemove(p) ==
    /\ pc[p] = "remove"
    /\ storage' = Delete(storage, cur[p].key)
    /\ cur' = [cur EXCEPT ![p].err = NoErr, ![p].loaded = Load(storage, cur[p].key)]
    /\ pc' = [pc EXCEPT ![p] = "ret"]
    /\ hist' = [hist EXCEPT ![cur[p].key].live = FALSE,
                            ![cur[p].key].removed = TRUE,
                            ![cur[p].key].dead =
                                hist[cur[p].key].dead \/ Load(storage, cur[p].key)]
    /\ UNCHANGED <<mu, now, keyLength, durationToExpire, autoClear,
                   tickerC, last, calls>>
    /\ UNCHANGED aside

\* ------------------------------------------------------------------ syncMap.clearExpired
\* s.Range(...): delete every entry whose expiration has passed; return nil
SyncMapClearExpired(p) ==
    /\ pc[p] = "clear"
    /\ storage' = ClearExpiredMap(storage, now)
    /\ cur' = [cur EXCEPT ![p].err = NoErr]
    /\ pc' = [pc EXCEPT ![p] = "ret"]
    /\ hist' = [k \in DOMAIN hist |->
                  IF k \in DOMAIN storage /\ k \notin DOMAIN storage'
                  THEN [hist[k] EXCEPT !.swept = TRUE] ELSE hist[k]]
    /\ UNCHANGED <<mu, now, keyLength, durationToExpire, autoClear,
                   tickerC, last, calls>>
    /\ UNCHANGED aside

\* ------------------------------------------------------------------ redisDB.set
\* if session == nil { return "", ErrNilSession }
RedisSetNil(p) ==
    /\ pc[p] = "rset_nil"
    /\ IF IsNil(cur[p].session)
       THEN /\ cur' = [cur EXCEPT ![p].err = ErrNilSession, ![p].retKey = NoKey]
            /\ pc' = [pc EXCEPT ![p] = "ret"]
       ELSE /\ pc' = [pc EXCEPT ![p] = "rset_rand"]
            /\ UNCHANGED cur
    /\ UNCHANGED <<storage, mu, now, keyLength, durationToExpire, autoClear,
                   tickerC, last, calls, hist>>
    /\ UNCHANGED aside

\* id, err = randomID(r.keyLength), before and inside the loop
RedisSetRand(p) ==
    /\ pc[p] = "rset_rand"
    /\ \/ \E k \in KeysOf(keyLength) :
            /\ cur' = [cur EXCEPT ![p].id = k]
            /\ pc' = [pc EXCEPT ![p] = "rset_get"]
       \/ /\ keyLength > 0
          /\ cur' = [cur EXCEPT ![p].err = ErrRand, ![p].retKey = NoKey,
                                ![p].fail = ErrRand]
          /\ pc' = [pc EXCEPT ![p] = "ret"]
    /\ UNCHANGED <<storage, mu, now, keyLength, durationToExpire, autoClear,
                   tickerC, last, calls, hist>>
    /\ UNCHANGED aside

\* _, err = r.Get(r.ctx, id).Result(): redis.Nil leaves the loop, no error
\* draws again, any other error is returned
RedisSetGet(p) ==
    /\ pc[p] = "rset_get"
    /\ \/ IF Load(storage, cur[p].id)
          THEN /\ pc' = [pc EXCEPT ![p] = "rset_rand"]
               /\ cur' = [cur EXCEPT ![p].collided = TRUE]
          ELSE /\ pc' = [pc EXCEPT ![p] = "rset_set"]
               /\ UNCHANGED cur
       \/ /\ cur' = [cur EXCEPT ![p].err = ErrIO, ![p].retKey = NoKey,
                                ![p].fail = ErrIO]
          /\ pc' = [pc EXCEPT ![p] = "ret"]
    /\ UNCHANGED <<storage, mu, now, keyLength, durationToExpire, autoClear,
                   tickerC, last, calls, hist>>
    /\ UNCHANGED aside

\* err = r.Set(r.ctx, id, session, r.durationToExpire).Err(); return id, nil.
\* Called from get, get then returns session, newKey, nil.
RedisSetSet(p) ==
    /\ pc[p] = "rset_set"
    /\ \/ /\ storage' = Store(storage, cur[p].id,
                              Value(Marshal(cur[p].session),
                                    now + durationToExpire))
          /\ cur' = [cur EXCEPT ![p].retKey = cur[p].id, ![p].err = NoErr,
                                ![p].stored = TRUE,
                                ![p].data = IF cur[p].op = "Get"
                                            THEN cur[p].session
                                            ELSE cur[p].data]
       \/ /\ cur' = [cur EXCEPT ![p].err = ErrIO, ![p].retKey = NoKey,
                                ![p].fail = ErrIO]
          /\ UNCHANGED storage
    /\ pc' = [pc EXCEPT ![p] = "ret"]
    /\ UNCHANGED <<mu, now, keyLength, durationToExpire, autoClear,
                   tickerC, last, calls, hist>>
    /\ UNCHANGED aside

\* ------------------------------------------------------------------ redisDB.get
\* session, err := r.GetDel(r.ctx, key).Result(): redis.Nil gives
\* ErrNoKeyFound, any other error is returned; then newKey, err := r.set(session)
RedisGetDel(p) ==
    /\ pc[p] = "rget_getdel"
    /\ LET k == cur[p].key
           loaded == Load(storage, k)
       IN \/ /\ storage' = IF loaded THEN Delete(storage, k) ELSE storage
             /\ cur' = [cur EXCEPT
                          ![p].loaded = loaded,
                          ![p].v = IF loaded THEN storage[k] ELSE NoValue,
                          ![p].session = IF loaded THEN storage[k].data
                                         ELSE NilSession,
                          ![p].err = IF loaded THEN NoErr ELSE ErrNoKeyFound,
                          ![p].pre = hist[k],
                          ![p].readTime = now]
             /\ pc' = [pc EXCEPT ![p] = IF loaded THEN "rset_nil" ELSE "ret"]
             /\ hist' = [hist EXCEPT ![k].live = FALSE]
          \/ /\ cur' = [cur EXCEPT ![p].err = ErrIO, ![p].fail = ErrIO,
                                   ![p].pre = hist[k], ![p].readTime = now]
             /\ pc' = [pc EXCEPT ![p] = "ret"]
             /\ UNCHANGED <<storage, hist>>
    /\ UNCHANGED <<mu, now, keyLength, durationToExpire, autoClear,
                   tickerC, last, calls>>
    /\ UNCHANGED aside

\* ------------------------------------------------------------------ redisDB.remove
\* return r.Del(r.ctx, key).Err()
RedisRemove(p) ==
    /\ pc[p] = "rremove"
    /\ LET k == cur[p].key
       IN \/ /\ storage' = Delete(storage, k)
             /\ cur' = [cur EXCEPT ![p].err = NoErr,
                                   ![p].loaded = Load(storage, k)]
             /\ hist' = [hist EXCEPT ![k].live = FALSE,
                                     ![k].removed = TRUE,
                                     ![k].dead = hist[k].dead \/ Load(storage, k)]
          \/ /\ cur' = [cur EXCEPT ![p].err = ErrIO, ![p].fail = ErrIO]
             /\ UNCHANGED <<storage, hist>>
    /\ pc' = [pc EXCEPT ![p] = "ret"]
    /\ UNCHANGED <<mu, now, keyLength, durationToExpire, autoClear,
                   tickerC, last, calls>>
    /\ UNCHANGED aside

\* ------------------------------------------------------------------ redisDB.clearExpired
\* return nil
RedisClearExpired(p) ==
    /\ pc[p] = "rclear"
    /\ cur' = [cur EXCEPT ![p].err = NoErr]
    /\ pc' = [pc EXCEPT ![p] = "ret"]
    /\ UNCHANGED <<storage, mu, now, keyLength, durationToExpire, autoClear,
                   tickerC, last, calls, hist>>
    /\ UNCHANGED aside

\* ------------------------------------------------------------------ return
\* what the facade hands back: Set returns "", err and Get returns
\* struct{}{}, "", err when the backend failed
Shaped(c) ==
    IF c.err # NoErr
    THEN [c EXCEPT !.retKey = NoKey,
                   !.data = IF c.op = "Get" THEN EmptyStruct ELSE NilSession]
    ELSE c

\* the record of a key that a call has just handed to its caller
Issued(h, c, m) ==
    [h EXCEPT !.src = IF c.op = "Set" THEN "set" ELSE "get",
              !.payload = IF c.op = "Set" THEN c.session ELSE c.data,
              !.prev = c.key,
              !.exp = IF c.retKey \in DOMAIN m THEN m[c.retKey].expiration ELSE 0,
              !.live = TRUE,
              !.swept = FALSE,
              !.setCount = IF c.op = "Set" THEN UpTo2(h.setCount) ELSE h.setCount]

\* defer ss.mu.Unlock() and the return to the caller
Return(p) ==
    /\ pc[p] = "ret"
    /\ mu' = "free"
    /\ last' = Shaped(cur[p])
    /\ cur' = [cur EXCEPT ![p] = Idle]
    /\ pc' = [pc EXCEPT ![p] = "idle"]
    /\ LET c == cur[p]
           ok == c.err = NoErr
           h1 == IF c.op = "Get" /\ ok
                 THEN [hist EXCEPT ![c.key].dead = TRUE,
                                   ![c.key].okGets = UpTo2(hist[c.key].okGets)]
                 ELSE hist
       IN hist' = IF c.op \in {"Set", "Get"} /\ ok
                  THEN [h1 EXCEPT ![c.retKey] = Issued(h1[c.retKey], c, storage)]
                  ELSE h1
    /\ UNCHANGED <<storage, now, keyLength, durationToExpire, autoClear,
                   tickerC, calls>>
    /\ UNCHANGED aside

\* ------------------------------------------------------------------ time
\* the goroutine of New has made its ticker and not yet returned (its
\* deferred ticker.Stop() has not run)
Ticking == stopChannel # "nil" /\ pc[Sweeper] # "stopped"

\* the clock advances; the ticker, whose period is durationToExpire, puts a
\* tick into ticker.C (a tick is dropped when one is already buffered); a
\* Redis service drops the records whose time to live is over
Tick ==
    /\ now < MaxTime
    /\ now' = now + 1
    /\ tickerC' = IF Ticking /\ (now + 1) % durationToExpire = 0
                  THEN 1 ELSE tickerC
    /\ storage' = IF backend = "redisDB"
                  THEN RedisExpire(storage, now + 1) ELSE storage
    /\ UNCHANGED <<mu, keyLength, durationToExpire, autoClear,
                   pc, cur, last, calls, hist>>
    /\ UNCHANGED aside

Next ==
    \/ \E p \in Callers : Set(p)
    \/ \E p \in Callers : Get(p)
    \/ \E p \in Callers : Remove(p)
    \/ \E p \in Callers : ClearExpired(p)
    \/ SweeperTick
    \/ SweeperClearExpired
    \/ \E p \in Procs : SetNil(p)
    \/ \E p \in Procs : SetRand(p)
    \/ \E p \in Procs : SetLoad(p)
    \/ \E p \in Procs : SetStore(p)
    \/ \E p \in Procs : GetLoadAndDelete(p)
    \/ \E p \in Procs : GetCheck(p)
    \/ \E p \in Procs : SyncMapRemove(p)
    \/ \E p \in Procs : SyncMapClearExpired(p)
    \/ \E p \in Procs : Return(p)
    \/ Tick

Spec == Init /\ [][Next]_vars

\* an in-memory store with a duration the options accept (positive), in
\* service
InitValid == Init /\ durationToExpire > 0

SpecValid == InitValid /\ [][Next]_vars

\* randomID hands set the key k
DrawsKey(p, k) == SetRand(p) /\ pc'[p] = "set_load" /\ cur'[p].id = k

\* the calls that run set, Set and Get, on a store without the sweeper
NextRetry ==
    \/ \E p \in Callers : Set(p)
    \/ \E p \in Callers : Get(p)
    \/ \E p \in Procs : SetNil(p)
    \/ \E p \in Procs : SetRand(p)
    \/ \E p \in Procs : SetLoad(p)
    \/ \E p \in Procs : SetStore(p)
    \/ \E p \in Procs : GetLoadAndDelete(p)
    \/ \E p \in Procs : GetCheck(p)
    \/ \E p \in Procs : Return(p)

\* with goroutines that keep running (a set that can take its next step
\* takes it) and a random source that hands out every key again and again
Retrying ==
    \A p \in Procs :
       /\ WF_vars(SetLoad(p))
       /\ WF_vars(SetStore(p))
       /\ \A k \in UNION {KeysOf(n) : n \in KeyLengths} :
             SF_vars(DrawsKey(p, k))

\* a store with a positive duration and no sweeper
InitRetry == InitValid /\ ~autoClear

SpecRetry == InitRetry /\ [][NextRetry]_vars /\ Retrying

\* every goroutine that holds the mutex keeps running: whatever step of the
\* backend or the return it can take, it takes; and the random source hands
\* out every key again and again
Running ==
    \A p \in Procs :
       /\ WF_vars(SetNil(p))
       /\ WF_vars(SetRand(p))
       /\ WF_vars(SetLoad(p))
       /\ WF_vars(SetStore(p))
       /\ WF_vars(GetLoadAndDelete(p))
       /\ WF_vars(GetCheck(p))
       /\ WF_vars(SyncMapRemove(p))
       /\ WF_vars(SyncMapClearExpired(p))
       /\ WF_vars(Return(p))
       /\ \A k \in UNION {KeysOf(n) : n \in KeyLengths} :
             SF_vars(DrawsKey(p, k))

SpecRunning == InitValid /\ [][Next]_vars /\ Running

\* Set calls only, on a store without the sweeper
InitSets == Init /\ ~autoClear

NextSets ==
    \/ \E p \in Callers : Set(p)
    \/ \E p \in Procs : SetNil(p)
    \/ \E p \in Procs : SetRand(p)
    \/ \E p \in Procs : SetLoad(p)
    \/ \E p \in Procs : SetStore(p)
    \/ \E p \in Procs : Return(p)
    \/ Tick

SpecSets == InitSets /\ [][NextSets]_vars

\* New with a Redis client among the options: it returns before the
\* auto-clear branch, so no stopChannel is made and no goroutine started
RedisStoreInit ==
    /\ keyLength \in KeyLengths
    /\ durationToExpire \in {d \in Durations : d > 0}
    /\ autoClear \in BOOLEAN
    /\ backend = "redisDB"
    /\ stopChannel = "nil"
    /\ Fresh

\* a store on a working Redis client, auto-clear not asked for
InitRedis == RedisStoreInit /\ ~autoClear /\ gen = GenIdle /\ build = BuildIdle

NextRedis ==
    \/ \E p \in Callers : Set(p)
    \/ \E p \in Callers : Get(p)
    \/ \E p \in Callers : Remove(p)
    \/ \E p \in Callers : ClearExpired(p)
    \/ \E p \in Procs : RedisSetNil(p)
    \/ \E p \in Procs : RedisSetRand(p)
    \/ \E p \in Procs : RedisSetGet(p)
    \/ \E p \in Procs : RedisSetSet(p)
    \/ \E p \in Procs : RedisGetDel(p)
    \/ \E p \in Procs : RedisRemove(p)
    \/ \E p \in Procs : RedisClearExpired(p)
    \/ \E p \in Procs : Return(p)
    \/ Tick

SpecRedis == InitRedis /\ [][NextRedis]_vars

\* ------------------------------------------------------------------ two stores, one service
\* Another SessionStorage, in this process or another, built on the same
\* Redis service with the same key length and duration, runs redisDB.set
\* under its own mutex: Set(session) entered, session not nil
PeerSet ==
    /\ backend = "redisDB" /\ peer.pc = "none" /\ calls < MaxCalls
    /\ peer' = [peer EXCEPT !.pc = "rset_rand"]
    /\ calls' = calls + 1
    /\ UNCHANGED <<storage, mu, now, keyLength, durationToExpire, autoClear,
                   tickerC, pc, cur, last, hist>>
    /\ UNCHANGED <<backend, stopChannel, destroyed, gen, build, sweeps>>

\* id, err = randomID(r.keyLength)
PeerSetRand ==
    /\ peer.pc = "rset_rand"
    /\ \/ \E k \in KeysOf(keyLength) : peer' = [pc |-> "rset_get", id |-> k]
       \/ keyLength > 0 /\ peer' = PeerIdle
    /\ UNCHANGED <<svars, backend, stopChannel, destroyed, gen, build, sweeps>>

\* _, err = r.Get(r.ctx, id).Result()
PeerSetGet ==
    /\ peer.pc = "rset_get"
    /\ \/ peer' = [peer EXCEPT !.pc = IF Load(storage, peer.id)
                                      THEN "rset_rand" ELSE "rset_set"]
       \/ peer' = PeerIdle
    /\ UNCHANGED <<svars, backend, stopChannel, destroyed, gen, build, sweeps>>

\* err = r.Set(r.ctx, id, session, r.durationToExpire).Err(); return
PeerSetSet ==
    /\ peer.pc = "rset_set"
    /\ \/ storage' = Store(storage, peer.id,
                           Value(Marshal(PeerSession), now + durationToExpire))
       \/ UNCHANGED storage
    /\ peer' = PeerIdle
    /\ UNCHANGED <<mu, now, keyLength, durationToExpire, autoClear,
                   tickerC, pc, cur, last, calls, hist>>
    /\ UNCHANGED <<backend, stopChannel, destroyed, gen, build, sweeps>>

\* Set calls of two stores on one working service
NextShared ==
    \/ \E p \in Callers : Set(p)
    \/ \E p \in Procs : RedisSetNil(p)
    \/ \E p \in Procs : RedisSetRand(p)
    \/ \E p \in Procs : RedisSetGet(p)
    \/ \E p \in Procs : RedisSetSet(p)
    \/ \E p \in Procs : Return(p)
    \/ PeerSet
    \/ PeerSetRand
    \/ PeerSetGet
    \/ PeerSetSet
    \/ Tick

SpecShared == InitRedis /\ [][NextShared]_vars

\* ------------------------------------------------------------------ sweeps in time
\* a set whose loop cannot end: every key of the configured length is taken
Stuck(p) ==
    /\ pc[p] \in {"set_rand", "set_load"}
    /\ DOMAIN storage = KeysOf(keyLength)

\* no goroutine has a step to take: the callers are between calls and the
\* sweeper waits in its select with no tick buffered
Quiet == tickerC = 0 /\ \A p \in Procs : pc[p] = "idle"

\* the clock read against the steps of the goroutines: a step takes no
\* time, so the clock moves on only when no step is pending, or when a set
\* loops without end (time passes while it does) and the sweeper has
\* nothing left to do but wait
TimelyTick ==
    /\ \/ Quiet
       \/ /\ \E p \in Procs : Stuck(p)
          /\ ~(pc[Sweeper] = "idle" /\ tickerC = 1)
    /\ now < MaxSweepTime
    /\ now' = now + 1
    /\ tickerC' = IF Ticking /\ (now + 1) % durationToExpire = 0
                  THEN 1 ELSE tickerC
    /\ UNCHANGED <<storage, mu, keyLength, durationToExpire, autoClear,
                   pc, cur, last, calls, hist>>
    /\ UNCHANGED aside

\* an in-memory store with auto-clear, as New returns it
InitSweep ==
    /\ keyLength \in KeyLengths
    /\ durationToExpire \in SweepDurations
    /\ autoClear = TRUE
    /\ backend = "syncMap"
    /\ stopChannel = "open"
    /\ Fresh
    /\ gen = GenIdle /\ build = BuildIdle

NextSweep ==
    \/ \E p \in Callers : Set(p)
    \/ \E p \in Callers : Get(p)
    \/ \E p \in Callers : Remove(p)
    \/ \E p \in Callers : ClearExpired(p)
    \/ SweeperTick
    \/ SweeperClearExpired
    \/ \E p \in Procs : SetNil(p)
    \/ \E p \in Procs : SetRand(p)
    \/ \E p \in Procs : SetLoad(p)
    \/ \E p \in Procs : SetStore(p)
    \/ \E p \in Procs : GetLoadAndDelete(p)
    \/ \E p \in Procs : GetCheck(p)
    \/ \E p \in Procs : SyncMapRemove(p)
    \/ \E p \in Procs : SyncMapClearExpired(p)
    \/ \E p \in Procs : Return(p)
    \/ TimelyTick

SpecSweep == InitSweep /\ [][NextSweep]_vars

\* ------------------------------------------------------------------ Destroy
\* Destroy(ss): if ss.config.autoClearExpiredKeys { close(ss.stopChannel) }.
\* close panics on a nil channel and on a closed one.
Destroy ==
    /\ destroyed # "panicked"
    /\ IF autoClear
       THEN IF stopChannel = "open"
            THEN stopChannel' = "closed" /\ destroyed' = "returned"
            ELSE destroyed' = "panicked" /\ UNCHANGED stopChannel
       ELSE destroyed' = "returned" /\ UNCHANGED stopChannel
    /\ UNCHANGED <<svars, backend, gen, build, beside>>

\* case <-ss.stopChannel: return, and the deferred ticker.Stop().  When a
\* tick is buffered too, select takes either case.
SweeperStop ==
    /\ pc[Sweeper] = "idle" /\ stopChannel = "closed"
    /\ pc' = [pc EXCEPT ![Sweeper] = "stopped"]
    /\ UNCHANGED <<storage, mu, now, keyLength, durationToExpire, autoClear,
                   tickerC, cur, last, calls, hist>>
    /\ UNCHANGED aside

\* the same clock watched for longer, for the sweeper on its own
LongTick ==
    /\ now < MaxSweepTime
    /\ now' = now + 1
    /\ tickerC' = IF Ticking /\ (now + 1) % durationToExpire = 0
                  THEN 1 ELSE tickerC
    /\ UNCHANGED <<storage, mu, keyLength, durationToExpire, autoClear,
                   pc, cur, last, calls, hist>>
    /\ UNCHANGED aside

\* the sweeper of an in-memory store with auto-clear, callers that sweep by
\* hand, and Destroy
NextStop ==
    \/ \E p \in Callers : ClearExpired(p)
    \/ SweeperTick
    \/ SweeperClearExpired
    \/ SweeperStop
    \/ Destroy
    \/ \E p \in Procs : SyncMapClearExpired(p)
    \/ \E p \in Procs : Return(p)
    \/ LongTick

SpecStop == InitSweep /\ [][NextStop]_vars

\* a store as New returns it for any choice of backend and auto-clear, its
\* calls, its sweeper and Destroy
InitLife == (StoreInit \/ RedisStoreInit) /\ gen = GenIdle /\ build = BuildIdle

NextLife ==
    \/ \E p \in Callers : Set(p)
    \/ \E p \in Callers : Get(p)
    \/ \E p \in Callers : Remove(p)
    \/ \E p \in Callers : ClearExpired(p)
    \/ SweeperTick
    \/ SweeperClearExpired
    \/ SweeperStop
    \/ Destroy
    \/ \E p \in Procs : SetNil(p)
    \/ \E p \in Procs : SetRand(p)
    \/ \E p \in Procs : SetLoad(p)
    \/ \E p \in Procs : SetStore(p)
    \/ \E p \in Procs : GetLoadAndDelete(p)
    \/ \E p \in Procs : GetCheck(p)
    \/ \E p \in Procs : SyncMapRemove(p)
    \/ \E p \in Procs : SyncMapClearExpired(p)
    \/ \E p \in Procs : RedisSetNil(p)
    \/ \E p \in Procs : RedisSetRand(p)
    \/ \E p \in Procs : RedisSetGet(p)
    \/ \E p \in Procs : RedisSetSet(p)
    \/ \E p \in Procs : RedisGetDel(p)
    \/ \E p \in Procs : RedisRemove(p)
    \/ \E p \in Procs : RedisClearExpired(p)
    \/ \E p \in Procs : Return(p)
    \/ Tick

SpecLife == InitLife /\ [][NextLife]_vars

\* ------------------------------------------------------------------ randomID
\* num, err := rand.Int(...) succeeds; ret[i] = stringBuffer[num.Int64()]
RandDraw ==
    /\ gen.pc = "loop" /\ ~LoopDone(gen.i, gen.n)
    /\ \E num \in 0..(Len(StringBuffer) - 1) :
          gen' = [gen EXCEPT !.ret[gen.i + 1] = StringBuffer[num + 1],
                             !.i = gen.i + 1]
    /\ UNCHANGED <<svars, backend, stopChannel, destroyed, build, beside>>

\* rand.Int fails: return "", err
RandFail ==
    /\ gen.pc = "loop" /\ ~LoopDone(gen.i, gen.n)
    /\ gen' = [gen EXCEPT !.out = <<>>, !.err = ErrRand, !.pc = "done"]
    /\ UNCHANGED <<svars, backend, stopChannel, destroyed, build, beside>>

\* return string(ret), nil
RandReturn ==
    /\ gen.pc = "loop" /\ LoopDone(gen.i, gen.n)
    /\ gen' = [gen EXCEPT !.out = gen.ret, !.err = NoErr, !.pc = "done"]
    /\ UNCHANGED <<svars, backend, stopChannel, destroyed, build, beside>>

\* one call of randomID(n), n from 0 to MaxLen, beside an idle store
InitRandom ==
    /\ StoreInit /\ keyLength = 1 /\ durationToExpire = 1 /\ ~autoClear
    /\ \E n \in 0..MaxLen : gen = RandomIDCall(n)
    /\ build = BuildIdle

NextRandom == RandDraw \/ RandFail \/ RandReturn

SpecRandom == InitRandom /\ [][NextRandom]_vars

\* ------------------------------------------------------------------ New
\* for _, opt := range opts: apply the next option, keep its error
ApplyOption ==
    /\ build.pc = "opts" /\ build.i < Len(build.opts)
    /\ LET r == Apply(build.opts[build.i + 1], build.c)
       IN build' = [build EXCEPT
                       !.c = r.c,
                       !.i = build.i + 1,
                       !.results = Append(build.results, r.err),
                       !.errs = IF r.err # NoErr
                                THEN Append(build.errs, r.err)
                                ELSE build.errs]
    /\ UNCHANGED <<svars, backend, stopChannel, destroyed, gen, beside>>

\* if len(errs) > 0 { return nil, errors.Join(errs...) }
NewFails ==
    /\ build.pc = "opts" /\ build.i = Len(build.opts)
    /\ Len(build.errs) > 0
    /\ build' = [build EXCEPT !.store = "nil", !.err = build.errs,
                               !.pc = "done"]
    /\ UNCHANGED <<svars, backend, stopChannel, destroyed, gen, beside>>

\* no option failed: the store is built and returned with a nil error
NewReturns ==
    /\ build.pc = "opts" /\ build.i = Len(build.opts)
    /\ Len(build.errs) = 0
    /\ build' = [build EXCEPT !.store = "store", !.err = <<>>, !.pc = "done",
                               !.made = Built(build.c)]
    /\ UNCHANGED <<svars, backend, stopChannel, destroyed, gen, beside>>

\* the option lists of up to MaxOpts options
OptionLists == UNION {[1..n -> Options] : n \in 0..MaxOpts}

\* one call of New with any list of options
InitConfig ==
    /\ StoreInit /\ keyLength = 1 /\ durationToExpire = 1 /\ ~autoClear
    /\ gen = GenIdle
    /\ \E opts \in OptionLists : build = NewCall(opts)

NextConfig == ApplyOption \/ NewFails \/ NewReturns

SpecConfig == InitConfig /\ [][NextConfig]_vars

\* ------------------------------------------------------------------ claims
Keys == DOMAIN hist
GetReturned == last.op = "Get"
GetSucceeded == last.op = "Get" /\ last.err = NoErr

\* C1: when only Set calls run against a store (no Get, Remove or
\* ClearExpired, no sweeper), in any interleaving, no key is returned by two
\* of them: the keys handed out are pairwise distinct.
C1_Uniqueness == \A k \in Keys : hist[k].setCount <= 1

\* both keys of the store were handed out, the second after a collision
C1_Witness ==
    /\ \A k \in Keys : hist[k].setCount = 1
    /\ last.op = "Set" /\ last.err = NoErr /\ last.collided

\* C2: whenever set stores a record (for Set or for the rotation of Get), no
\* record exists under that key at that instant, and the store adds exactly
\* one record to the backend.
C2_NoOverwrite ==
    [][\A p \in Procs :
          (pc[p] = "set_store" /\ pc'[p] = "ret")
             => /\ cur[p].id \notin DOMAIN storage
                /\ Size(storage') = Size(storage) + 1]_vars

\* a set has stored its record beside a live one after drawing a taken key
C2_Witness ==
    \E p \in Procs : /\ pc[p] = "ret" /\ cur[p].stored /\ cur[p].collided
                     /\ Size(storage) = 2

\* C3: for every key, at most one Get on it ever succeeds; every other Get
\* on it fails.
C3_SingleUse == \A k \in Keys : hist[k].okGets <= 1

\* C4: a key that was consumed by a successful Get or whose record a Remove
\* deleted is never the key of a record again.
C4_NeverValidAgain == \A k \in Keys : hist[k].dead => k \notin DOMAIN storage

\* C5: a successful Get on a key that an earlier Get handed out with payload
\* p returns p again, and a new key that is neither that key nor the key the
\* earlier Get consumed.
C5_RotationPreservesPayload ==
    (GetSucceeded /\ last.pre.src = "get")
       => /\ last.data = last.pre.payload
          /\ last.retKey # last.key
          /\ last.retKey # last.pre.prev

\* the Get in C6: on a key that Set handed out, not read or removed since,
\* whose record is unexpired when get looks at it
C6_Case ==
    /\ GetReturned
    /\ last.pre.src = "set" /\ last.pre.live
    /\ last.pre.exp > last.readTime

\* C6 as amended: such a Get returns the payload given to Set and no error,
\* unless drawing the replacement key failed: then it returns that error,
\* struct{}{} and the empty key.
C6_SetThenGet ==
    C6_Case =>
       \/ last.err = NoErr /\ last.data = last.pre.payload
       \/ last.err = ErrRand /\ last.data = EmptyStruct /\ last.retKey = NoKey

\* C6 as claimed: such a Get returns no error and exactly the payload.
C6_Original ==
    C6_Case => (last.err = NoErr /\ last.data = last.pre.payload)

\* a Get returned the payload of a Set after the clock had moved
C6_Witness ==
    /\ C6_Case /\ last.err = NoErr /\ last.data = last.pre.payload
    /\ last.data.base \in Payloads /\ last.readTime > 0

\* the Get in C7: on a key that Set handed out on a store whose duration is
\* already elapsed
C7_Case == durationToExpire < 0 /\ GetReturned /\ last.pre.src = "set"

C8_NoExpiredRead == GetSucceeded => last.v.expiration > last.readTime

\* a Get found the record under its key at the very instant it expired
C8_Witness ==
    /\ GetReturned /\ last.loaded /\ last.err = ErrKeyWasExpired
    /\ last.v.expiration = last.readTime /\ last.readTime > 0

\* C9: when Get is about to return ErrKeyWasExpired, its key has no record
\* and the backend holds exactly one record less than when the call began.
C9_ExpiredGetRemoves ==
    \A p \in Procs :
       (pc[p] = "ret" /\ cur[p].op = "Get" /\ cur[p].err = ErrKeyWasExpired)
          => /\ cur[p].key \notin DOMAIN storage
             /\ Size(storage) = cur[p].sizeBefore - 1

\* a Get is about to return ErrKeyWasExpired while another record stays
C9_Witness ==
    \E p \in Procs : /\ pc[p] = "ret" /\ cur[p].op = "Get"
                     /\ cur[p].err = ErrKeyWasExpired
                     /\ Size(storage) = 1

\* C10: Remove never returns an error, and a Get on a key that was named in
\* an earlier Remove fails with ErrNoKeyFound.
C10_IdempotentRemove ==
    /\ last.op = "Remove" => last.err = NoErr
    /\ (GetReturned /\ last.pre.removed) => last.err = ErrNoKeyFound

\* the call of C11: Set handed nil for a payload
SetOfNil(c) == c.op = "Set" /\ c.session = NilSession

\* C11: while a Set with a nil payload runs, no step changes the records of
\* the backend, no key is drawn for it, and what it returns is ErrNilSession
\* with the empty key.
C11_NilPayload ==
    [][/\ \A p \in Procs :
             SetOfNil(cur'[p]) => (storage' = storage /\ cur'[p].id = NoKey)
       /\ SetOfNil(last') =>
             (last'.err = ErrNilSession /\ last'.retKey = NoKey
                /\ ~last'.stored)]_vars

\* a Set of nil has returned on a store that holds a record
C11_Witness ==
    SetOfNil(last) /\ last.err = ErrNilSession /\ Size(storage) > 0

\* the goroutines that are executing a backend operation
Inside == {p \in Procs : pc[p] \notin {"idle", "tick", "stopped"}}

\* C12: at any instant at most one goroutine (a caller or the sweeper) is
\* executing a backend operation, it is the holder of the mutex, and the
\* mutex is free whenever no operation is executing, after error returns too.
C12_MutualExclusion ==
    /\ Cardinality(Inside) <= 1
    /\ \A p \in Procs : p \in Inside <=> mu = p
    /\ Inside = {} <=> mu = "free"

\* a call has returned an error, the mutex is free again, and the sweeper
\* has since been made to wait for a caller that holds it
C12_Witness ==
    /\ last.err # NoErr
    /\ pc[Sweeper] = "tick" /\ mu \in Callers

\* a Get whose record was removed and whose replacement is not yet stored
MidRotation(p) ==
    /\ cur[p].op = "Get" /\ cur[p].loaded
    /\ pc[p] \in {"get_check", "set_nil", "set_rand", "set_load", "set_store"}

\* C13: between the step of a Get that removes the record under K and the
\* step that stores the replacement, no other goroutine takes a step against
\* the store: the others stay where they are (the sweeper may take a tick
\* from its ticker and then waits for the mutex).
C13_AtomicRotation ==
    [][\A p \in Procs :
          MidRotation(p) =>
             \A q \in Procs \ {p} :
                \/ pc'[q] = pc[q] /\ cur'[q] = cur[q]
                \/ q = Sweeper /\ pc[q] = "idle" /\ pc'[q] = "tick"]_vars

\* a rotation is about to store the replacement while the sweeper waits
C13_Witness ==
    \E p \in Callers :
       MidRotation(p) /\ pc[p] = "set_store" /\ pc[Sweeper] = "tick"

C20_KeyGenerator ==
    gen.pc = "done" =>
       /\ gen.err = NoErr =>
             /\ Len(gen.out) = gen.n
             /\ \A j \in 1..gen.n : gen.out[j] \in Alphabet
       /\ gen.err # NoErr => gen.out = NoKey
       /\ gen.n = 0 => (gen.err = NoErr /\ gen.out = NoKey)

\* randomID returned a string of three characters or more, not all the same
C20_Witness ==
    /\ gen.pc = "done" /\ gen.err = NoErr /\ gen.n >= 3
    /\ gen.out[1] # gen.out[gen.n]

\* the option at place j is of a kind that an earlier option of the list
\* has already set
Repeated(opts, j) ==
    \E i \in 1..(j - 1) :
       /\ opts[i].kind = opts[j].kind
       /\ Apply(opts[i], ZeroConfig).err = NoErr
\* the error the option kinds name for a repetition
AlreadySet(kind) ==
    CASE kind = "WithRedis" -> ErrRedisClientAlreadySet
      [] kind = "WithKeyLength" -> ErrCustomKeyLengthAlreadySet
      [] kind = "WithKeyDuration" -> ErrCustomKeyDurationAlreadySet
      [] kind = "WithAutoClearExpiredKeys" -> ErrAutoExpiredClearAlreadySet
\* the error the option at place j must surface: the one of its kind for a
\* repetition, else the one for its argument (nil client, zero length,
\* non-positive duration), else none
Due(opts, j) ==
    IF Repeated(opts, j) THEN AlreadySet(opts[j].kind)
    ELSE Apply(opts[j], ZeroConfig).err

\* C17: when New has returned, every option was applied; each option that
\* repeats a kind already set, names a nil client, a zero key length or a
\* non-positive duration has surfaced the error of its case; New returned
\* no store if any option failed, and its error is all those errors.
C17_ConfigErrors ==
    build.pc = "done" =>
       /\ Len(build.results) = Len(build.opts)
       /\ \A j \in 1..Len(build.opts) :
             build.results[j] = Due(build.opts, j)
       /\ build.err = SelectSeq(build.results, LAMBDA e : e # NoErr)
       /\ build.store = "nil" <=> build.err # <<>>

\* C19: when randomID or the Redis client handed an error to the backend
\* during a call, the call returns exactly that error, with the empty key
\* and no payload; so no call reports success after its backend failed.
C19_ErrorPropagation ==
    last.fail # NoErr =>
       /\ last.err = last.fail
       /\ last.retKey = NoKey
       /\ last.data = IF last.op = "Get" THEN EmptyStruct ELSE NilSession

\* a Get lost its record to GetDel and then failed to write the replacement
C19_Witness ==
    /\ last.op = "Get" /\ last.loaded /\ last.fail = ErrIO
    /\ last.err = ErrIO /\ last.id # NoKey

\* C15: on a store for which New started no sweeper (stopChannel was never
\* made) a call of Destroy returns normally and leaves the store, its
\* records and its goroutines as they were.
C15_DestroyNoSweeper ==
    [][(stopChannel = "nil" /\ destroyed' # destroyed)
          => (destroyed' = "returned" /\ UNCHANGED <<svars, stopChannel, backend>>)]_vars

\* C16: once a call of Destroy has returned, the sweeper goroutine never
\* again takes a tick and calls ClearExpired.
C16_NoSweepAfterDestroy ==
    [][destroyed = "returned"
          => ~(pc[Sweeper] = "idle" /\ pc'[Sweeper] = "tick")]_vars

\* C14: on an in-memory store with auto-clear, the record that a Set
\* inserted and no caller has read or removed is gone from the map once more
\* than the duration plus one sweep interval (the duration again) has passed
\* since the insert, that is once the clock is more than one duration past
\* the record's expiration.
C14_SweepCorrectness ==
    autoClear =>
       \A k \in DOMAIN storage :
          (hist[k].src = "set" /\ hist[k].live
              /\ hist[k].exp = storage[k].expiration)
             => now <= storage[k].expiration + durationToExpire

\* C21: the step of clearExpired, which runs with no other operation under
\* way, leaves no record whose expiration has passed, and keeps every record
\* whose expiration is still ahead under its key with its payload and
\* expiration; it adds nothing.
C21_ClearExpiredFrame ==
    [][\A p \in Procs :
          (pc[p] = "clear" /\ pc'[p] = "ret") =>
             /\ Inside = {p}
             /\ \A k \in DOMAIN storage' : storage'[k].expiration > now
             /\ \A k \in DOMAIN storage :
                   storage[k].expiration > now =>
                      (k \in DOMAIN storage' /\ storage'[k] = storage[k])
             /\ DOMAIN storage' \subseteq DOMAIN storage]_vars

\* a clearExpired has deleted the expired one of two records and kept the
\* other
C21_Witness ==
    \E p \in Procs :
       /\ pc[p] = "ret" /\ cur[p].op = "ClearExpired"
       /\ cur[p].sizeBefore = 2 /\ Size(storage) = 1

\* C22: however a sweep interleaves with Set, Get and Remove, every record
\* the sweep deletes has its expiration behind it at the moment of the
\* deletion and the sweep returns no error; and a Get or Remove on a key whose
\* expired record a sweep has already deleted changes nothing and finds the
\* key absent: the Remove returns nil, the Get answers as for any absent key
\* (ErrNoKeyFound), and the key is absent afterwards.
C22_BenignSweepRaces ==
    [][\A p \in Procs :
          /\ (pc[p] = "clear" /\ pc'[p] = "ret") =>
                /\ \A k \in DOMAIN storage \ DOMAIN storage' :
                      storage[k].expiration <= now
                /\ cur'[p].err = NoErr
          /\ (pc[p] \in {"get_lad", "remove"} /\ pc'[p] # pc[p]
                /\ hist[cur[p].key].swept /\ cur[p].key \notin DOMAIN storage) =>
                /\ storage' = storage
                /\ pc'[p] = "ret"
                /\ cur'[p].err = IF pc[p] = "remove" THEN NoErr ELSE ErrNoKeyFound
                /\ cur'[p].retKey = NoKey]_vars

\* a Remove has come after the sweeper's own sweep of its key, and returns
C22_Witness ==
    \E p \in Callers :
       /\ pc[p] = "ret" /\ cur[p].op = "Remove" /\ ~cur[p].loaded
       /\ hist[cur[p].key].swept
       /\ autoClear

\* C23: of the set calls racing against one Redis service, from one store or
\* from two, none writes its candidate key while a record is under it: no
\* step replaces the record under a key, so two calls never both store under
\* one key and neither overwrites the other's record.
C23_ConditionalWrite ==
    [][/\ \A k \in DOMAIN storage \cap DOMAIN storage' :
             storage'[k] = storage[k]
       /\ \A p \in Procs :
             (pc[p] = "rset_set" /\ pc'[p] = "ret" /\ cur'[p].stored)
                => cur[p].id \notin DOMAIN storage
       /\ (peer.pc = "rset_set" /\ storage' # storage)
             => peer.id \notin DOMAIN storage]_vars

\* C24: from set's check that its candidate key is free until its Store, the
\* key stays free: no other operation on the map inserts a record under it
\* in between, and no other operation is under way at all.
C24_InsertIfAbsent ==
    \A p \in Procs :
       pc[p] = "set_store" =>
          (cur[p].id \notin DOMAIN storage /\ Inside = {p})

\* a set has found its second candidate free and not stored it yet, while the
\* other caller and the sweeper have work to do
C24_Witness ==
    \E p \in Callers :
       /\ pc[p] = "set_store" /\ cur[p].collided
       /\ pc[Sweeper] = "tick"
       /\ calls < MaxCalls

\* the options New was called with ask for auto-clear, name a Redis client
AutoClearAsked ==
    \E j \in 1..Len(build.opts) : build.opts[j].kind = "WithAutoClearExpiredKeys"
ExternalAsked ==
    \E j \in 1..Len(build.opts) : build.opts[j].kind = "WithRedis"
NewBuilt == build.pc = "done" /\ build.store = "store"

\* C25: the store New returns has a started sweeper (and a stop channel for
\* it) exactly when auto-clear was asked for and no Redis client was given:
\* with a Redis client there is none even if auto-clear was asked for, and
\* without auto-clear there is none.
C25_SweeperStart ==
    NewBuilt =>
       /\ build.made.sweeper <=> (AutoClearAsked /\ ~ExternalAsked)
       /\ (build.made.stopChannel = "open") <=> build.made.sweeper
       /\ build.made.sweeper => build.made.backend = "syncMap"

\* New has built a store on a Redis client with auto-clear asked for
C25_Witness ==
    /\ NewBuilt /\ AutoClearAsked /\ ExternalAsked
    /\ ~build.made.sweeper

\* C27: with a Redis client among the options the store's backend is the
\* Redis one and holds exactly the client handle that was supplied, so set,
\* get and remove go to that client; without one the backend is a new, empty
\* in-memory map.
C27_BackendChoice ==
    NewBuilt =>
       IF ExternalAsked
       THEN /\ build.made.backend = "redisDB"
            /\ build.made.client = build.c.redisClient
            /\ build.made.client = "client"
       ELSE /\ build.made.backend = "syncMap"
            /\ build.made.client = "nil"

\* C26: once Destroy has closed the stop channel the sweeper takes at most
\* one more tick before it returns; when it has returned its ticker is
\* stopped (no tick is delivered any more) and it never runs again.
C26_SweeperShutdown ==
    [][/\ sweeps' <= 1
       /\ pc[Sweeper] = "stopped" =>
             (pc'[Sweeper] = "stopped" /\ tickerC' = tickerC)]_vars

\* C28: a set that is about to draw a key while some key of the configured
\* length has no record goes on drawing until it has stored its session and
\* has a key to return, unless the random source fails.
C28_RetryUntilFree ==
    \A p \in Procs :
       (pc[p] = "set_rand" /\ DOMAIN storage # KeysOf(keyLength))
          ~> (pc[p] = "ret" /\ (cur[p].retKey \in DOMAIN storage
                                   \/ cur[p].fail = ErrRand))

\* the set inside a Get has drawn a taken key first and then stored the
\* session under the only free one
C28_Witness ==
    \E p \in Callers :
       /\ pc[p] = "ret" /\ cur[p].op = "Get"
       /\ cur[p].collided /\ cur[p].stored
       /\ DOMAIN storage = KeysOf(keyLength)

\* C29: the step of Remove(K) takes the record under K out of the map, if
\* there is one, and leaves the record under every other key as it was; if
\* there is none the map is unchanged; either way it returns no error.
C29_RemoveFrame ==
    [][\A p \in Procs :
          (pc[p] = "remove" /\ pc'[p] = "ret") =>
             /\ DOMAIN storage' = DOMAIN storage \ {cur[p].key}
             /\ \A k \in DOMAIN storage' : storage'[k] = storage[k]
             /\ cur[p].key \notin DOMAIN storage => storage' = storage
             /\ cur'[p].err = NoErr]_vars

\* a Remove of a key without a record has left the record of the other key
\* alone
C29_Witness ==
    \E p \in Callers :
       /\ pc[p] = "ret" /\ cur[p].op = "Remove" /\ ~cur[p].loaded
       /\ cur[p].sizeBefore = 1 /\ Size(storage) = 1

\* C30: a Get on a key without a record changes nothing in the map and
\* returns ErrNoKeyFound with no key (and the empty struct for the session).
C30_GetNotFound ==
    [][\A p \in Procs :
          /\ (pc[p] = "get_lad" /\ pc'[p] # "get_lad"
                /\ cur[p].key \notin DOMAIN storage) =>
                (storage' = storage /\ pc'[p] = "ret"
                    /\ cur'[p].err = ErrNoKeyFound /\ cur'[p].retKey = NoKey)
          /\ (pc[p] = "ret" /\ pc'[p] = "idle"
                /\ cur[p].op = "Get" /\ ~cur[p].loaded) =>
                (storage' = storage /\ last'.err = ErrNoKeyFound
                    /\ last'.retKey = NoKey /\ last'.data = EmptyStruct)]_vars

\* a Get on a key that was never handed out has returned, with a record of
\* another key in the map
C30_Witness ==
    /\ last.op = "Get" /\ ~last.loaded /\ last.err = ErrNoKeyFound
    /\ last.pre.src = "none"
    /\ Size(storage) = 1

\* C31: when a Get is about to return without an error, the map holds as
\* many records as when the Get took the mutex, no record is under the key
\* the Get was given, and a record is under the key it returns.
C31_GetReplacesOne ==
    \A p \in Procs :
       (pc[p] = "ret" /\ cur[p].op = "Get" /\ cur[p].err = NoErr) =>
          /\ Size(storage) = cur[p].sizeBefore
          /\ cur[p].key \notin DOMAIN storage
          /\ cur[p].retKey \in DOMAIN storage

\* C32: on the Redis backend the step of clearExpired sends no command (so
\* none can fail), changes no record and returns nil; a record leaves the
\* service only through a caller's GetDel or Del of its key or when the
\* clock passes the expiration it was written with, which is the time of the
\* write plus the store's duration, and then it does leave.
C32_RedisClearExpiredNoOp ==
    [][/\ \A p \in Procs :
             /\ (pc[p] = "rclear" /\ pc'[p] # "rclear") =>
                   /\ storage' = storage
                   /\ pc'[p] = "ret"
                   /\ cur'[p].err = NoErr /\ cur'[p].fail = NoErr
             /\ (pc[p] = "rset_set" /\ cur'[p].stored) =>
                   storage'[cur[p].id].expiration = now + durationToExpire
       /\ \A k \in DOMAIN storage \ DOMAIN storage' :
             \/ \E p \in Procs : /\ pc[p] \in {"rget_getdel", "rremove"}
                                 /\ pc'[p] # pc[p] /\ cur[p].key = k
             \/ now' > now /\ storage[k].expiration <= now'
       /\ \A k \in DOMAIN storage' : storage'[k].expiration > now']_vars

\* a ClearExpired on the Redis backend is about to return with the record
\* that was there still there
C32_Witness ==
    \E p \in Callers :
       /\ backend = "redisDB"
       /\ pc[p] = "ret" /\ cur[p].op = "ClearExpired"
       /\ cur[p].sizeBefore = 1 /\ Size(storage) = 1

\* C33: whoever holds the mutex gives it up again: every call that has
\* taken ss.mu returns and unlocks, so a goroutine waiting for the mutex is
\* not kept out forever by the call that holds it.
C33_LockReleased ==
    \A p \in Procs : (mu = p) ~> (mu # p)

\* C34: when a Get has taken the record under its key out of the backend and
\* the set that should store the replacement then fails, with randomID's
\* error or the client's, the Get returns exactly that error with no
\* payload and no key, no record is under the key it was given, and nothing
\* was stored in its place: the backend holds fewer records than when the
\* Get began, so the payload can no longer be reached.
C34_RotationFailure ==
    [][\A p \in Procs :
          (pc[p] = "ret" /\ pc'[p] = "idle" /\ cur[p].op = "Get"
              /\ cur[p].loaded /\ cur[p].fail # NoErr) =>
             /\ last'.err = cur[p].fail
             /\ last'.err \in {ErrRand, ErrIO}
             /\ last'.data = EmptyStruct
             /\ last'.retKey = NoKey
             /\ cur[p].key \notin DOMAIN storage'
             /\ ~cur[p].stored
             /\ Size(storage') < cur[p].sizeBefore]_vars

\* a Get has removed the only record and randomID failed on the replacement
C34_Witness ==
    \E p \in Callers :
       /\ pc[p] = "ret" /\ cur[p].op = "Get" /\ cur[p].loaded
       /\ cur[p].fail = ErrRand
       /\ cur[p].sizeBefore = 1 /\ Size(storage) = 0

\* C35: the record a Get stores in place of the one it consumed expires one
\* duration after the clock at that store, whatever the expiration of the
\* consumed record was; a Get that finds its record before the expiration
\* goes on to store the replacement, so a session read again before each
\* expiration is never reported expired; and no step changes the expiration
\* of a record that stays in the map.
C35_SlidingExpiration ==
    [][/\ \A p \in Procs :
             /\ (pc[p] = "set_store" /\ pc'[p] = "ret" /\ cur[p].op = "Get") =>
                   /\ storage'[cur'[p].retKey].expiration = now + durationToExpire
                   /\ storage'[cur'[p].retKey].expiration > cur[p].readTime
             /\ (pc[p] = "get_check" /\ pc'[p] # "get_check"
                   /\ cur[p].v.expiration > now) =>
                   (pc'[p] = "set_nil" /\ cur'[p].err = NoErr)
       /\ \A k \in DOMAIN storage \cap DOMAIN storage' :
             storage'[k].expiration = storage[k].expiration]_vars

\* a Get has stored a replacement that expires later than the record it
\* consumed
C35_Witness ==
    \E p \in Callers :
       /\ pc[p] = "ret" /\ cur[p].op = "Get" /\ cur[p].stored
       /\ storage[cur[p].retKey].expiration > cur[p].v.expiration
====
